---- MODULE Spec2Model ----
(***************************************************************************)
(* Model of src/main.py: the PyQt6 text anonymizer that talks to a local   *)
(* Ollama server.  Three threads are modelled: the Qt main thread          *)
(* (TextAnonymizer and its slots), the OllamaValidateWorker thread and the *)
(* OllamaAnonymizationWorker thread.  Signals emitted by a worker thread   *)
(* are queued to the main thread and delivered there in emission order.    *)
(*                                                                         *)
(* Message boxes that only inform (information, warning, critical) are not *)
(* modelled as states: the slot that shows one is a single step.  The two  *)
(* question dialogs are states of the main thread, because the event loop  *)
(* they run delivers queued signals before the answer is acted on.         *)
(* closeEvent ends the program and is not modelled.  The URL and the model *)
(* name are not modelled: no slot branches on them.                        *)
(*                                                                         *)
(* Text is a sequence of one-character strings; fixed literals of the      *)
(* source that are never inspected are kept as one element.                *)
(***************************************************************************)
EXTENDS Integers, Sequences, FiniteSets, TLC

\* ------------------------------------------------------------------------
\* Bounds of the model
\* ------------------------------------------------------------------------

\* Number of anonymization jobs the main window starts in one run.
MaxJobs == 2

\* Number of lines of a streamed response that do not end the response.
MaxLines == 1

\* longest text the chunker is applied to on its own
MaxTextLen == 6

\* ------------------------------------------------------------------------
\* Text helpers (str.strip, str.split, str.join)
\* ------------------------------------------------------------------------

Whitespace == {" ", "\n"}

RECURSIVE LStrip(_)
LStrip(s) ==
    IF s = <<>> THEN s
    ELSE IF Head(s) \in Whitespace THEN LStrip(Tail(s)) ELSE s

RECURSIVE RStrip(_)
RStrip(s) ==
    IF s = <<>> THEN s
    ELSE IF s[Len(s)] \in Whitespace THEN RStrip(SubSeq(s, 1, Len(s) - 1)) ELSE s

\* str.strip()
Strip(s) == RStrip(LStrip(s))

\* text.split("\n"): always at least one line
RECURSIVE SplitFrom(_, _, _)
SplitFrom(s, cur, acc) ==
    IF s = <<>> THEN Append(acc, cur)
    ELSE IF Head(s) = "\n" THEN SplitFrom(Tail(s), <<>>, Append(acc, cur))
    ELSE SplitFrom(Tail(s), Append(cur, Head(s)), acc)

SplitLines(text) == SplitFrom(text, <<>>, <<>>)

\* "\n".join(lines)
RECURSIVE JoinLines(_)
JoinLines(lines) ==
    IF lines = <<>> THEN <<>>
    ELSE IF Len(lines) = 1 THEN lines[1]
    ELSE lines[1] \o <<"\n">> \o JoinLines(Tail(lines))

\* "".join(parts)
RECURSIVE Concat(_)
Concat(parts) ==
    IF parts = <<>> THEN <<>> ELSE Head(parts) \o Concat(Tail(parts))

\* ------------------------------------------------------------------------
\* TextAnonymizer._chunk_text
\* ------------------------------------------------------------------------

\* IsHeader as it would be without the test line.strip() != "#"
IsHeaderAnyHash(line) ==
    LET t == Strip(line) IN t /= <<>> /\ Head(t) = "#"

\* line.strip().startswith("#") and line.strip() != "#"
IsHeader(line) ==
    LET t == Strip(line) IN t /= <<>> /\ Head(t) = "#" /\ t /= <<"#">>

\* ChunkLoop as it would be if cur.append(line) came before the chunk is
\* closed: a header line ends the chunk before it
RECURSIVE ChunkLoopLate(_, _, _, _, _)
ChunkLoopLate(lines, k, chunks, cur, found) ==
    IF k > Len(lines)
    THEN [chunks |-> IF cur /= <<>> THEN Append(chunks, Strip(JoinLines(cur))) ELSE chunks,
          found  |-> found]
    ELSE IF IsHeader(lines[k])
         THEN ChunkLoopLate(lines, k + 1,
                            Append(chunks, Strip(JoinLines(Append(cur, lines[k])))),
                            <<>>, TRUE)
         ELSE ChunkLoopLate(lines, k + 1, chunks, Append(cur, lines[k]), found)

\* the for loop of _chunk_text over lines[k..], carrying (chunks, cur, found_header)
RECURSIVE ChunkLoop(_, _, _, _, _)
ChunkLoop(lines, k, chunks, cur, found) ==
    IF k > Len(lines)
    THEN [chunks |-> IF cur /= <<>> THEN Append(chunks, Strip(JoinLines(cur))) ELSE chunks,
          found  |-> found]
    ELSE IF IsHeader(lines[k])
         THEN ChunkLoop(lines, k + 1,
                        IF cur /= <<>> THEN Append(chunks, Strip(JoinLines(cur))) ELSE chunks,
                        <<lines[k]>>, TRUE)
         ELSE ChunkLoop(lines, k + 1, chunks, Append(cur, lines[k]), found)

\* NonBlank as it would be if no chunk were filtered out
NonBlankAlways(c) == TRUE

\* the filter "if c.strip()"
NonBlank(c) == Strip(c) /= <<>>

chunk_text(text) ==
    LET r == ChunkLoop(SplitLines(text), 1, <<>>, <<>>, FALSE)
        filtered == SelectSeq(r.chunks, NonBlank)
    IN  IF r.found THEN filtered
        ELSE IF Strip(text) /= <<>> THEN <<Strip(text)>> ELSE <<>>

\* ------------------------------------------------------------------------
\* Inputs
\* ------------------------------------------------------------------------

\* the document the user can load while the whole application is explored
\* (before the first upload original_text is empty)
Docs == { <<"a">> }

\* documents of the job explored on its own: one, two and three chunks
JobDocs == { <<"a">>,
             <<"#", "a", "\n", "#", "b">>,
             <<"a", "\n", "#", "b", "\n", "#", "c">> }

\* the characters of the texts the chunker is applied to on its own
TextChars == { "#", "a", " ", "\n" }

\* every text of at most MaxTextLen characters
Texts == UNION { [1..n -> TextChars] : n \in 0..MaxTextLen }

\* TextAnonymizer.default_examples (its content is one element, it ends in "\n")
default_examples == <<"EX", "\n">>

\* texts the user can leave in the settings dialog
ExampleInputs == { <<" ">>, <<" ", "E", "2">> }

\* the examples of the job explored on its own
JobExamples == { default_examples, <<"E", "2">> }

\* the values of the "response" field of one streamed object
Pieces == { <<>>, <<" ">>, <<"x">> }

\* one line of r.iter_lines(): an empty line, a line json.loads rejects, a JSON
\* value that is no object, or an object with a "response" and a "done" field
Lines ==
    { [kind |-> k, piece |-> <<>>, done |-> FALSE] : k \in {"empty", "unparsable", "nonobject"} }
    \cup { [kind |-> "object", piece |-> p, done |-> d] : p \in Pieces, d \in BOOLEAN }

\* ------------------------------------------------------------------------
\* State
\* ------------------------------------------------------------------------

VARIABLES
    \* TextAnonymizer
    original_text,      \* self.original_text
    anonymized_chunks,  \* self.anonymized_chunks
    current_examples,   \* self.current_examples
    model_status,       \* which text self.model_status shows
    process_btn,        \* self.process_btn: [enabled, visible]
    cancel_visible,     \* self.cancel_btn.isVisible()
    progress,           \* self.progress_bar / self.progress_label
    download_enabled,   \* self.download_btn.isEnabled()
    validate_enabled,   \* self.validate_btn.isEnabled()
    saved_file,         \* content of the file last written by _download_results
    ui_pc,              \* where the main thread is: idle, in a question dialog, or in wait()
    queue,              \* signals posted to the main thread and not yet delivered
    job,                \* number of OllamaAnonymizationWorker objects created so far
    \* OllamaValidateWorker (self.model_worker)
    v_pc, v_cancel,
    v_show,             \* the answer of /api/show, while run() is active
    last_validation,    \* history: how the most recent validation run ended
    \* OllamaAnonymizationWorker (self.proc_worker)
    w_pc, w_chunks, w_prompt, w_i, w_out, w_parts, w_stop,
    w_lines,            \* history: the lines read from the current response that did not end it
    w_requests,         \* history: the prompts submitted to /api/generate
    w_results,          \* history: per completed chunk, what _stream_ollama did
    w_observed,         \* history: the checks that saw the cancellation flag set
    w_emitted,          \* history: the signals this worker has emitted
    \* history of the main window
    h_cancelled,        \* jobs whose loop was left at the cancellation check
    h_surfaced,         \* jobs whose finished signal _on_finished has handled
    h_restarted         \* the newest worker was started after cancelling and waiting for its predecessor

uivars == <<original_text, anonymized_chunks, current_examples, model_status, process_btn,
            cancel_visible, progress, download_enabled, validate_enabled, saved_file,
            ui_pc, h_surfaced>>
vvars  == <<v_pc, v_cancel, v_show, last_validation>>
wvars  == <<w_pc, w_chunks, w_prompt, w_i, w_out, w_parts, w_lines, w_stop,
            w_requests, w_results, w_observed, w_emitted, h_cancelled>>
vars   == <<uivars, queue, job, h_restarted, vvars, wvars>>

\* a signal on its way to a slot of the main window
Signal(sig, j, cur, total, payload) ==
    [sig |-> sig, job |-> j, cur |-> cur, total |-> total, payload |-> payload]

\* QThread.isRunning()
ValidateRunning == v_pc \notin {"none", "done"}
ProcRunning     == w_pc \notin {"none", "done"}

\* the main thread is inside QThread.wait() and runs no slot
MainBlocked == ui_pc \in {"validate_wait", "restart_wait"}

\* the texts _init_ui, _validate_model, _on_model_validated and _on_model_error
\* put in self.model_status (the model name is the one element "M")
StatusText(st) ==
    CASE st = "none"       -> <<"N","o"," ","m","o","d","e","l"," ","v","a","l","i","d","a","t","e","d">>
      [] st = "validating" -> <<"V","a","l","i","d","a","t","i","n","g"," ","m","o","d","e","l",".",".",".">>
      [] st = "validated"  -> <<"+"," ","M"," ","(","v","a","l","i","d","a","t","e","d",")">>
      [] st = "failed"     -> <<"x"," ","V","a","l","i","d","a","t","i","o","n"," ","f","a","i","l","e","d">>

\* str.lower() on the letters the status texts use
LowerChar(c) == CASE c = "N" -> "n" [] c = "V" -> "v" [] OTHER -> c
Lower(text) == [k \in 1..Len(text) |-> LowerChar(text[k])]

\* word in text
Contains(text, word) ==
    \E k \in 1..(Len(text) - Len(word) + 1) : SubSeq(text, k, k + Len(word) - 1) = word

\* "validated" in self.model_status.text().lower()
StatusSaysValidated(st) ==
    Contains(Lower(StatusText(st)), <<"v","a","l","i","d","a","t","e","d">>)

Init ==
    /\ original_text = <<>>
    /\ anonymized_chunks = <<>>
    /\ current_examples \in {default_examples, <<>>}
    /\ model_status = "none"
    /\ process_btn = [enabled |-> FALSE, visible |-> TRUE]
    /\ cancel_visible = FALSE
    /\ progress = [visible |-> FALSE, value |-> 0, maximum |-> 0, label |-> <<>>]
    /\ download_enabled = FALSE
    /\ validate_enabled = TRUE
    /\ saved_file = <<>>
    /\ ui_pc = "idle"
    /\ queue = <<>>
    /\ job = 0
    /\ v_pc = "none" /\ v_cancel = FALSE /\ v_show = "none" /\ last_validation = "none"
    /\ w_pc = "none" /\ w_chunks = <<>> /\ w_prompt = <<>> /\ w_i = 0 /\ w_out = <<>>
    /\ w_parts = <<>> /\ w_lines = <<>> /\ w_stop = FALSE
    /\ w_requests = <<>> /\ w_results = <<>> /\ w_observed = {} /\ w_emitted = <<>>
    /\ h_cancelled = {} /\ h_surfaced = {} /\ h_restarted = FALSE

\* ------------------------------------------------------------------------
\* OllamaAnonymizationWorker
\* ------------------------------------------------------------------------

\* the prompt run() builds for one chunk
FullPrompt(prompt, chunk) ==
    <<"INSTRUCTION">> \o prompt \o <<"Original: ">> \o chunk \o <<"\nDe-identified: ">>

\* TextOr as it would be without "or chunk"
TextOnly(text, chunk) == text

\* text or chunk
TextOr(text, chunk) == IF text /= <<>> THEN text ELSE chunk

\* Record as it would be if the newest output were put first
RecordFirst(out, text, chunk) == <<TextOr(text, chunk)>> \o out

\* out.append(text or chunk)
Record(out, text, chunk) == Append(out, TextOr(text, chunk))

\* ChunkSignals as it would be if progress reported the number of chunks done
\* so far as the total
ChunkSignalsRunningTotal(j, i, total, chunk, text, err) ==
    (IF err THEN <<Signal("error_occurred", j, i, total, <<>>)>> ELSE <<>>)
    \o << Signal("chunk_processed", j, i, total, <<chunk, TextOr(text, chunk)>>),
          Signal("progress_updated", j, i, i, <<>>) >>

\* ChunkSignals as it would be if the except branch went on to the next chunk
\* without reporting progress
ChunkSignalsSilentFailure(j, i, total, chunk, text, err) ==
    IF err
    THEN << Signal("error_occurred", j, i, total, <<>>),
            Signal("chunk_processed", j, i, total, <<chunk, TextOr(text, chunk)>>) >>
    ELSE << Signal("chunk_processed", j, i, total, <<chunk, TextOr(text, chunk)>>),
            Signal("progress_updated", j, i, total, <<>>) >>

\* ChunkSignals as it would be if the chunks were counted from 0
\* (enumerate without start=1)
ChunkSignalsZeroBased(j, i, total, chunk, text, err) ==
    (IF err THEN <<Signal("error_occurred", j, i - 1, total, <<>>)>> ELSE <<>>)
    \o << Signal("chunk_processed", j, i - 1, total, <<chunk, TextOr(text, chunk)>>),
          Signal("progress_updated", j, i - 1, total, <<>>) >>

\* the signals run() emits once chunk i is settled; err is TRUE on the except path
ChunkSignals(j, i, total, chunk, text, err) ==
    (IF err THEN <<Signal("error_occurred", j, i, total, <<>>)>> ELSE <<>>)
    \o << Signal("chunk_processed", j, i, total, <<chunk, TextOr(text, chunk)>>),
          Signal("progress_updated", j, i, total, <<>>) >>

\* StreamResult as it would be without the final strip()
StreamResultUntrimmed(parts) == Concat(parts)

\* what _stream_ollama returns: "".join(parts).strip()
StreamResult(parts) == Strip(Concat(parts))

\* lines 156-164 of run() for chunk w_i, given what _stream_ollama did:
\* it returned text (raised = FALSE) or raised (then text = chunk)
Settle(text, raised) ==
    LET chunk == w_chunks[w_i]
        sigs  == ChunkSignals(job, w_i, Len(w_chunks), chunk, text, raised)
    IN  /\ w_out' = Record(w_out, text, chunk)
        /\ w_results' = Append(w_results, [raised |-> raised, text |-> text])
        /\ w_emitted' = w_emitted \o sigs
        /\ queue' = queue \o sigs
        /\ w_i' = w_i + 1
        /\ w_pc' = "check"
        /\ w_parts' = <<>>
        /\ w_lines' = <<>>

\* Fallback as it would be if the except branch kept the pieces read so far
FallbackKeepsPartial == Settle(TextOr(StreamResult(w_parts), w_chunks[w_i]), TRUE)

\* the except branch of run(): text = chunk, error_occurred is emitted
Fallback == Settle(w_chunks[w_i], TRUE)

\* LoopContinues as it would be if the loop stopped one chunk early
LoopSkipsLastChunk == w_i < Len(w_chunks) /\ ~w_stop

\* StreamBreaks as it would be if the flag were not looked at while reading
StreamNeverBreaks == FALSE

\* "for i, chunk in enumerate(...)" has a next chunk and the check
\* "if self._stop.is_set(): break" lets the loop go on
LoopContinues == w_i <= Len(w_chunks) /\ ~w_stop

\* "if self._stop.is_set(): break" inside "for line in r.iter_lines()"
StreamBreaks == w_stop

\* WCheck as it would be if run() returned at the cancellation check without
\* emitting finished
WCheckSilentCancel ==
    /\ w_pc = "check"
    /\ IF LoopContinues
       THEN /\ w_pc' = "post"
            /\ UNCHANGED <<queue, w_emitted, w_observed, h_cancelled>>
       ELSE IF w_i <= Len(w_chunks)
            THEN /\ w_pc' = "finishing"
                 /\ w_observed' = w_observed \cup {"loop"}
                 /\ h_cancelled' = h_cancelled \cup {job}
                 /\ UNCHANGED <<queue, w_emitted>>
            ELSE LET fin == Signal("finished", job, 0, Len(w_chunks), w_out)
                 IN  /\ w_pc' = "finishing"
                     /\ queue' = Append(queue, fin)
                     /\ w_emitted' = Append(w_emitted, fin)
                     /\ UNCHANGED <<w_observed, h_cancelled>>
    /\ UNCHANGED <<w_chunks, w_prompt, w_i, w_out, w_parts, w_lines, w_stop,
                   w_requests, w_results>>
    /\ UNCHANGED <<uivars, job, h_restarted, vvars>>

\* top of the for loop: the next chunk, the cancellation check, or the end of
\* the loop followed by finished.emit(out)
WCheck ==
    /\ w_pc = "check"
    /\ IF LoopContinues
       THEN /\ w_pc' = "post"
            /\ UNCHANGED <<queue, w_emitted, w_observed, h_cancelled>>
       ELSE LET fin == Signal("finished", job, 0, Len(w_chunks), w_out)
            IN  /\ w_pc' = "finishing"
                /\ queue' = Append(queue, fin)
                /\ w_emitted' = Append(w_emitted, fin)
                /\ w_observed' = IF w_i <= Len(w_chunks)
                                 THEN w_observed \cup {"loop"} ELSE w_observed
                /\ h_cancelled' = IF w_i <= Len(w_chunks)
                                  THEN h_cancelled \cup {job} ELSE h_cancelled
    /\ UNCHANGED <<w_chunks, w_prompt, w_i, w_out, w_parts, w_lines, w_stop,
                   w_requests, w_results>>
    /\ UNCHANGED <<uivars, job, h_restarted, vvars>>

\* requests.post(...) and r.raise_for_status() in _stream_ollama
WPost ==
    /\ w_pc = "post"
    /\ w_requests' = Append(w_requests, FullPrompt(w_prompt, w_chunks[w_i]))
    /\ \E answer \in {"ok", "raises"} :
          IF answer = "ok"
          THEN /\ w_pc' = "stream"
               /\ w_parts' = <<>>
               /\ w_lines' = <<>>
               /\ UNCHANGED <<w_out, w_results, w_emitted, queue, w_i>>
          ELSE Fallback
    /\ UNCHANGED <<w_chunks, w_prompt, w_stop, w_observed, h_cancelled>>
    /\ UNCHANGED <<uivars, job, h_restarted, vvars>>

\* one iteration of "for line in r.iter_lines()"
WStreamLine ==
    /\ w_pc = "stream"
    /\ \E line \in Lines :
          IF StreamBreaks
          THEN /\ w_observed' = w_observed \cup {"stream"}
               /\ Settle(StreamResult(w_parts), FALSE)
          ELSE /\ UNCHANGED w_observed
               /\ CASE line.kind \in {"empty", "unparsable"} ->
                         /\ Len(w_lines) < MaxLines
                         /\ w_lines' = Append(w_lines, line)
                         /\ UNCHANGED <<w_parts, w_out, w_results, w_emitted, queue, w_i, w_pc>>
                    [] line.kind = "nonobject" -> Fallback
                    [] line.kind = "object" ->
                         LET parts == IF line.piece /= <<>>
                                      THEN Append(w_parts, line.piece) ELSE w_parts
                         IN  IF line.done
                             THEN Settle(StreamResult(parts), FALSE)
                             ELSE /\ Len(w_lines) < MaxLines
                                  /\ w_lines' = Append(w_lines, line)
                                  /\ w_parts' = parts
                                  /\ UNCHANGED <<w_out, w_results, w_emitted, queue, w_i, w_pc>>
    /\ UNCHANGED <<w_chunks, w_prompt, w_stop, w_requests, h_cancelled>>
    /\ UNCHANGED <<uivars, job, h_restarted, vvars>>

\* r.iter_lines() is exhausted before any object had "done" set
WStreamEnd ==
    /\ w_pc = "stream"
    /\ Settle(StreamResult(w_parts), FALSE)
    /\ UNCHANGED <<w_chunks, w_prompt, w_stop, w_requests, w_observed, h_cancelled>>
    /\ UNCHANGED <<uivars, job, h_restarted, vvars>>

\* r.iter_lines() raises (read timeout, connection lost)
WStreamRaise ==
    /\ w_pc = "stream"
    /\ Fallback
    /\ UNCHANGED <<w_chunks, w_prompt, w_stop, w_requests, w_observed, h_cancelled>>
    /\ UNCHANGED <<uivars, job, h_restarted, vvars>>

\* run() has returned; its locals are gone, the thread stops and isRunning()
\* becomes False
WExit ==
    /\ w_pc = "finishing"
    /\ w_pc' = "done"
    /\ w_i' = 0
    /\ w_out' = <<>>
    /\ w_requests' = <<>>
    /\ w_results' = <<>>
    /\ w_observed' = {}
    /\ w_emitted' = <<>>
    /\ UNCHANGED <<w_chunks, w_prompt, w_parts, w_lines, w_stop, h_cancelled>>
    /\ UNCHANGED <<uivars, queue, job, h_restarted, vvars>>

WorkerStep == WCheck \/ WPost \/ WStreamLine \/ WStreamEnd \/ WStreamRaise \/ WExit

\* ------------------------------------------------------------------------
\* OllamaValidateWorker
\* ------------------------------------------------------------------------

\* what an HTTP request of the validation worker can answer
Answers == {"ok", "not_found", "fails"}

\* run() returns: Qt emits QThread.finished, connected to _on_model_done
ValidateReturns(sigs) ==
    /\ v_pc' = "finishing"
    /\ v_show' = "none"
    /\ queue' = queue \o sigs \o <<Signal("model_done", 0, 0, 0, <<>>)>>

\* step 1 of run(): POST /api/show; every exception of the step, the
\* RuntimeError raised on a 404 included, is swallowed by "except Exception: pass"
VShow ==
    /\ v_pc = "show"
    /\ \E answer \in Answers : v_show' = answer
    /\ v_pc' = "generate"
    /\ UNCHANGED <<v_cancel, last_validation, queue>>
    /\ UNCHANGED <<uivars, job, h_restarted, wvars>>

\* the first cancel check and step 2 of run(): POST /api/generate
VGenerate ==
    /\ v_pc = "generate"
    /\ IF v_cancel
       THEN /\ ValidateReturns(<<>>)
            /\ last_validation' = "cancelled"
       ELSE \E answer \in Answers :
               IF answer = "ok"
               THEN /\ v_pc' = "emit"
                    /\ UNCHANGED <<queue, last_validation, v_show>>
               ELSE /\ ValidateReturns(<<Signal("error", 0, 0, 0, <<>>)>>)
                    /\ last_validation' = "error"
    /\ UNCHANGED v_cancel
    /\ UNCHANGED <<uivars, job, h_restarted, wvars>>

\* the second cancel check and self.validated.emit(self.model_name)
VEmit ==
    /\ v_pc = "emit"
    /\ IF v_cancel
       THEN /\ ValidateReturns(<<>>)
            /\ last_validation' = "cancelled"
       ELSE /\ ValidateReturns(<<Signal("validated", 0, 0, 0, <<>>)>>)
            /\ last_validation' = "validated"
    /\ UNCHANGED v_cancel
    /\ UNCHANGED <<uivars, job, h_restarted, wvars>>

\* the validation thread stops and isRunning() becomes False
VExit ==
    /\ v_pc = "finishing"
    /\ v_pc' = "done"
    /\ UNCHANGED <<v_cancel, v_show, last_validation, queue>>
    /\ UNCHANGED <<uivars, job, h_restarted, wvars>>

ValidatorStep == VShow \/ VGenerate \/ VEmit \/ VExit

\* ------------------------------------------------------------------------
\* TextAnonymizer: slots run by user actions
\* ------------------------------------------------------------------------

UserCanAct == ui_pc = "idle"

\* _validate_model from line 379 on: a new OllamaValidateWorker is started
StartValidation ==
    /\ validate_enabled' = FALSE
    /\ model_status' = "validating"
    /\ v_pc' = "show"
    /\ v_cancel' = FALSE
    /\ v_show' = "none"
    /\ last_validation' = "running"
    /\ ui_pc' = "idle"

\* _validate_model: a validation still running is cancelled and waited for
ValidateModel ==
    /\ UserCanAct
    /\ validate_enabled
    /\ IF ValidateRunning
       THEN /\ v_cancel' = TRUE
            /\ ui_pc' = "validate_wait"
            /\ UNCHANGED <<validate_enabled, model_status, v_pc, v_show, last_validation>>
       ELSE StartValidation
    /\ UNCHANGED <<original_text, anonymized_chunks, current_examples, process_btn,
                   cancel_visible, progress, download_enabled, saved_file, h_surfaced>>
    /\ UNCHANGED <<queue, job, h_restarted, wvars>>

\* self.model_worker.wait() returns
ValidateResume ==
    /\ ui_pc = "validate_wait"
    /\ ~ValidateRunning
    /\ StartValidation
    /\ UNCHANGED <<original_text, anonymized_chunks, current_examples, process_btn,
                   cancel_visible, progress, download_enabled, saved_file, h_surfaced>>
    /\ UNCHANGED <<queue, job, h_restarted, wvars>>

\* _upload_document: the dialog is cancelled, the file cannot be read, or its
\* text is loaded
UploadDocument ==
    /\ UserCanAct
    /\ \E outcome \in {"cancelled", "unreadable", "loaded"}, doc \in Docs :
          IF outcome = "loaded"
          THEN /\ original_text' = doc
               /\ process_btn' = IF StatusSaysValidated(model_status)
                                 THEN [process_btn EXCEPT !.enabled = TRUE]
                                 ELSE process_btn
          ELSE UNCHANGED <<original_text, process_btn>>
    /\ UNCHANGED <<anonymized_chunks, current_examples, model_status, cancel_visible,
                   progress, download_enabled, validate_enabled, saved_file, ui_pc,
                   h_surfaced>>
    /\ UNCHANGED <<queue, job, h_restarted, vvars, wvars>>

\* _open_settings with the dialog accepted: get_examples() strips the text
OpenSettings ==
    /\ UserCanAct
    /\ \E typed \in ExampleInputs :
          LET new_examples == Strip(typed)
          IN  current_examples' = IF new_examples /= <<>> /\ new_examples /= current_examples
                                  THEN new_examples ELSE current_examples
    /\ UNCHANGED <<original_text, anonymized_chunks, model_status, process_btn,
                   cancel_visible, progress, download_enabled, validate_enabled,
                   saved_file, ui_pc, h_surfaced>>
    /\ UNCHANGED <<queue, job, h_restarted, vvars, wvars>>

\* BeginJob as it would be if the Start Anonymization button stayed visible
\* while the job runs
BeginJobKeepsStart(chunks) ==
    /\ process_btn' = process_btn
    /\ cancel_visible' = TRUE
    /\ progress' = [visible |-> TRUE, value |-> 0, maximum |-> Len(chunks),
                    label |-> <<0, Len(chunks)>>]
    /\ job' = job + 1
    /\ w_pc' = "check"
    /\ w_chunks' = chunks
    /\ w_prompt' = current_examples
    /\ w_i' = 1
    /\ w_out' = <<>>
    /\ w_parts' = <<>>
    /\ w_lines' = <<>>
    /\ w_stop' = FALSE
    /\ w_requests' = <<>>
    /\ w_results' = <<>>
    /\ w_observed' = {}
    /\ w_emitted' = <<>>
    /\ ui_pc' = "idle"

\* _start_anonymization from line 503 on: the view enters processing mode and
\* a new OllamaAnonymizationWorker is created and started
BeginJob(chunks) ==
    /\ process_btn' = [process_btn EXCEPT !.visible = FALSE]
    /\ cancel_visible' = TRUE
    /\ progress' = [visible |-> TRUE, value |-> 0, maximum |-> Len(chunks),
                    label |-> <<0, Len(chunks)>>]
    /\ job' = job + 1
    /\ w_pc' = "check"
    /\ w_chunks' = chunks
    /\ w_prompt' = current_examples
    /\ w_i' = 1
    /\ w_out' = <<>>
    /\ w_parts' = <<>>
    /\ w_lines' = <<>>
    /\ w_stop' = FALSE
    /\ w_requests' = <<>>
    /\ w_results' = <<>>
    /\ w_observed' = {}
    /\ w_emitted' = <<>>
    /\ ui_pc' = "idle"

\* the early returns of _start_anonymization (lines 477-489)
CanStart ==
    /\ process_btn.enabled
    /\ Strip(current_examples) /= <<>>
    /\ Strip(original_text) /= <<>>
    /\ chunk_text(original_text) /= <<>>

\* _start_anonymization, clicked on the visible Start Anonymization button
StartAnonymization ==
    /\ UserCanAct
    /\ process_btn.visible
    /\ job < MaxJobs
    /\ IF ~CanStart
       THEN UNCHANGED <<process_btn, cancel_visible, progress, ui_pc, job, h_restarted, wvars>>
       ELSE IF ProcRunning
            THEN /\ ui_pc' = "restart_dialog"
                 /\ UNCHANGED <<process_btn, cancel_visible, progress, job, h_restarted, wvars>>
            ELSE /\ BeginJob(chunk_text(original_text))
                 /\ h_restarted' = FALSE
                 /\ UNCHANGED h_cancelled
    /\ UNCHANGED <<original_text, anonymized_chunks, current_examples, model_status,
                   download_enabled, validate_enabled, saved_file, h_surfaced>>
    /\ UNCHANGED <<queue, vvars>>

\* the answer to "Cancel it and start a new one?"
RestartReply ==
    /\ ui_pc = "restart_dialog"
    /\ \E reply \in {"Yes", "No"} :
          IF reply = "Yes"
          THEN /\ w_stop' = TRUE
               /\ ui_pc' = "restart_wait"
          ELSE /\ ui_pc' = "idle"
               /\ UNCHANGED w_stop
    /\ UNCHANGED <<original_text, anonymized_chunks, current_examples, model_status,
                   process_btn, cancel_visible, progress, download_enabled,
                   validate_enabled, saved_file, h_surfaced>>
    /\ UNCHANGED <<w_pc, w_chunks, w_prompt, w_i, w_out, w_parts, w_lines,
                   w_requests, w_results, w_observed, w_emitted, h_cancelled>>
    /\ UNCHANGED <<queue, job, h_restarted, vvars>>

\* RestartResume as it would be if the new worker were started without
\* waiting for the old one
RestartWithoutWait ==
    /\ ui_pc = "restart_wait"
    /\ BeginJob(chunk_text(original_text))
    /\ h_restarted' = TRUE
    /\ UNCHANGED <<original_text, anonymized_chunks, current_examples, model_status,
                   download_enabled, validate_enabled, saved_file, h_surfaced>>
    /\ UNCHANGED <<queue, vvars, h_cancelled>>

\* self.proc_worker.wait() returns and the new job is started
RestartResume ==
    /\ ui_pc = "restart_wait"
    /\ ~ProcRunning
    /\ BeginJob(chunk_text(original_text))
    /\ h_restarted' = TRUE
    /\ UNCHANGED <<original_text, anonymized_chunks, current_examples, model_status,
                   download_enabled, validate_enabled, saved_file, h_surfaced>>
    /\ UNCHANGED <<queue, vvars, h_cancelled>>

\* _cancel_processing, clicked on the visible Cancel button
CancelProcessing ==
    /\ UserCanAct
    /\ cancel_visible
    /\ ui_pc' = IF ProcRunning THEN "cancel_dialog" ELSE "idle"
    /\ UNCHANGED <<original_text, anonymized_chunks, current_examples, model_status,
                   process_btn, cancel_visible, progress, download_enabled,
                   validate_enabled, saved_file, h_surfaced>>
    /\ UNCHANGED <<queue, job, h_restarted, vvars, wvars>>

\* the answer to "Are you sure you want to cancel the current processing?"
CancelReply ==
    /\ ui_pc = "cancel_dialog"
    /\ ui_pc' = "idle"
    /\ \E reply \in {"Yes", "No"} : w_stop' = IF reply = "Yes" THEN TRUE ELSE w_stop
    /\ UNCHANGED <<original_text, anonymized_chunks, current_examples, model_status,
                   process_btn, cancel_visible, progress, download_enabled,
                   validate_enabled, saved_file, h_surfaced>>
    /\ UNCHANGED <<w_pc, w_chunks, w_prompt, w_i, w_out, w_parts, w_lines,
                   w_requests, w_results, w_observed, w_emitted, h_cancelled>>
    /\ UNCHANGED <<queue, job, h_restarted, vvars>>

\* "\n\n".join(self.anonymized_chunks)
RECURSIVE JoinBlankLine(_)
JoinBlankLine(chunks) ==
    IF chunks = <<>> THEN <<>>
    ELSE IF Len(chunks) = 1 THEN chunks[1]
    ELSE chunks[1] \o <<"\n", "\n">> \o JoinBlankLine(Tail(chunks))

\* what a write that fails can leave in the file: open() failed and the file is
\* as it was, or open() truncated it and less than the whole content arrived
FailedWrite(old, content) ==
    {old} \cup { SubSeq(content, 1, n) : n \in 0..(Len(content) - 1) }

\* DownloadResults as it would be if the results were cleared whether or not
\* the write succeeds
DownloadClearsOnFailure ==
    /\ UserCanAct
    /\ download_enabled
    /\ \E outcome \in {"cancelled", "unwritable", "written"} :
          IF anonymized_chunks = <<>> \/ outcome = "cancelled"
          THEN UNCHANGED <<saved_file, anonymized_chunks, download_enabled>>
          ELSE /\ saved_file' \in IF outcome = "written"
                                  THEN {JoinBlankLine(anonymized_chunks)}
                                  ELSE FailedWrite(saved_file, JoinBlankLine(anonymized_chunks))
               /\ anonymized_chunks' = <<>>
               /\ download_enabled' = FALSE
    /\ UNCHANGED <<original_text, current_examples, model_status, process_btn,
                   cancel_visible, progress, validate_enabled, ui_pc, h_surfaced>>
    /\ UNCHANGED <<queue, job, h_restarted, vvars, wvars>>

\* _download_results: no results, the dialog is cancelled, the write fails, or
\* the file is written and the results are cleared
DownloadResults ==
    /\ UserCanAct
    /\ download_enabled
    /\ \E outcome \in {"cancelled", "unwritable", "written"} :
          IF anonymized_chunks = <<>> \/ outcome = "cancelled"
          THEN UNCHANGED <<saved_file, anonymized_chunks, download_enabled>>
          ELSE IF outcome = "written"
               THEN /\ saved_file' = JoinBlankLine(anonymized_chunks)
                    /\ anonymized_chunks' = <<>>
                    /\ download_enabled' = FALSE
               ELSE /\ saved_file' \in FailedWrite(saved_file, JoinBlankLine(anonymized_chunks))
                    /\ UNCHANGED <<anonymized_chunks, download_enabled>>
    /\ UNCHANGED <<original_text, current_examples, model_status, process_btn,
                   cancel_visible, progress, validate_enabled, ui_pc, h_surfaced>>
    /\ UNCHANGED <<queue, job, h_restarted, vvars, wvars>>

UserStep ==
    \/ ValidateModel \/ ValidateResume \/ UploadDocument \/ OpenSettings
    \/ StartAnonymization \/ RestartReply \/ RestartResume
    \/ CancelProcessing \/ CancelReply \/ DownloadResults

\* ------------------------------------------------------------------------
\* TextAnonymizer: slots run by queued signals
\* ------------------------------------------------------------------------

\* the event loop of the main thread (also the one a question dialog runs)
\* takes the oldest posted signal
Delivers(sig) ==
    /\ ~MainBlocked
    /\ queue /= <<>>
    /\ Head(queue).sig = sig
    /\ queue' = Tail(queue)

\* _on_progress
OnProgress ==
    /\ Delivers("progress_updated")
    /\ progress' = [progress EXCEPT !.value = Head(queue).cur,
                                    !.label = <<Head(queue).cur, Head(queue).total>>]
    /\ UNCHANGED <<original_text, anonymized_chunks, current_examples, model_status,
                   process_btn, cancel_visible, download_enabled, validate_enabled,
                   saved_file, ui_pc, h_surfaced>>
    /\ UNCHANGED <<job, h_restarted, vvars, wvars>>

\* _on_chunk_processed
OnChunkProcessed ==
    /\ Delivers("chunk_processed")
    /\ UNCHANGED <<uivars, job, h_restarted, vvars, wvars>>

\* _on_finished
OnFinished ==
    /\ Delivers("finished")
    /\ anonymized_chunks' = Head(queue).payload
    /\ process_btn' = [enabled |-> TRUE, visible |-> TRUE]
    /\ cancel_visible' = FALSE
    /\ progress' = [progress EXCEPT !.visible = FALSE]
    /\ download_enabled' = TRUE
    /\ h_surfaced' = h_surfaced \cup {Head(queue).job}
    /\ UNCHANGED <<original_text, current_examples, model_status, validate_enabled,
                   saved_file, ui_pc>>
    /\ UNCHANGED <<job, h_restarted, vvars, wvars>>

\* _on_error
OnError ==
    /\ Delivers("error_occurred")
    /\ UNCHANGED <<uivars, job, h_restarted, vvars, wvars>>

\* _on_model_validated
OnModelValidated ==
    /\ Delivers("validated")
    /\ model_status' = "validated"
    /\ process_btn' = [process_btn EXCEPT !.enabled = TRUE]
    /\ UNCHANGED <<original_text, anonymized_chunks, current_examples, cancel_visible,
                   progress, download_enabled, validate_enabled, saved_file, ui_pc,
                   h_surfaced>>
    /\ UNCHANGED <<job, h_restarted, vvars, wvars>>

\* _on_model_error
OnModelError ==
    /\ Delivers("error")
    /\ model_status' = "failed"
    /\ UNCHANGED <<original_text, anonymized_chunks, current_examples, process_btn,
                   cancel_visible, progress, download_enabled, validate_enabled,
                   saved_file, ui_pc, h_surfaced>>
    /\ UNCHANGED <<job, h_restarted, vvars, wvars>>

\* _on_model_done
OnModelDone ==
    /\ Delivers("model_done")
    /\ validate_enabled' = TRUE
    /\ UNCHANGED <<original_text, anonymized_chunks, current_examples, model_status,
                   process_btn, cancel_visible, progress, download_enabled,
                   saved_file, ui_pc, h_surfaced>>
    /\ UNCHANGED <<job, h_restarted, vvars, wvars>>

SlotStep ==
    \/ OnProgress \/ OnChunkProcessed \/ OnFinished \/ OnError
    \/ OnModelValidated \/ OnModelError \/ OnModelDone

\* ------------------------------------------------------------------------
\* Specifications
\* ------------------------------------------------------------------------

Next == UserStep \/ SlotStep \/ ValidatorStep \/ WorkerStep

Spec == Init /\ [][Next]_vars

\* One job on its own: the state right after _start_anonymization has started
\* the first job, on a validated model, for a document of JobDocs; from there
\* the worker runs, its signals are delivered, and the user may cancel and save.
JobInit ==
    /\ original_text \in JobDocs
    /\ anonymized_chunks = <<>>
    /\ current_examples \in JobExamples
    /\ model_status = "validated"
    /\ process_btn = [enabled |-> TRUE, visible |-> FALSE]
    /\ cancel_visible = TRUE
    /\ progress = [visible |-> TRUE, value |-> 0,
                   maximum |-> Len(chunk_text(original_text)),
                   label |-> <<0, Len(chunk_text(original_text))>>]
    /\ download_enabled = FALSE
    /\ validate_enabled = TRUE
    /\ saved_file = <<>>
    /\ ui_pc = "idle"
    /\ queue = <<>>
    /\ job = 1
    /\ v_pc = "done" /\ v_cancel = FALSE /\ v_show = "none" /\ last_validation = "validated"
    /\ w_pc = "check" /\ w_chunks = chunk_text(original_text) /\ w_prompt = current_examples
    /\ w_i = 1 /\ w_out = <<>> /\ w_parts = <<>> /\ w_lines = <<>> /\ w_stop = FALSE
    /\ w_requests = <<>> /\ w_results = <<>> /\ w_observed = {} /\ w_emitted = <<>>
    /\ h_cancelled = {} /\ h_surfaced = {} /\ h_restarted = FALSE

JobSlotStep == OnProgress \/ OnChunkProcessed \/ OnFinished \/ OnError

JobNext ==
    \/ WorkerStep
    \/ JobSlotStep
    \/ CancelProcessing \/ CancelReply
    \/ DownloadResults

JobSpec == JobInit /\ [][JobNext]_vars

\* the worker thread is scheduled and every backend call returns or fails; the
\* event loop of the main thread delivers the posted signals
FairJobSpec ==
    /\ JobSpec
    /\ WF_vars(WorkerStep)
    /\ WF_vars(JobSlotStep)

\* both worker threads are scheduled and every backend call returns or fails;
\* the event loop of the main thread delivers the posted signals, and wait()
\* returns once the thread it waits for has ended
FairSpec ==
    /\ Spec
    /\ WF_vars(WorkerStep)
    /\ WF_vars(ValidatorStep)
    /\ WF_vars(SlotStep)
    /\ WF_vars(ValidateResume)
    /\ WF_vars(RestartResume)

\* The chunker on its own: a validated model and any text of Texts loaded as the
\* document; _start_anonymization applies _chunk_text to it and hands the
\* chunks to the worker (or starts nothing when there is no chunk).
ChunkInit ==
    /\ original_text \in Texts
    /\ anonymized_chunks = <<>>
    /\ current_examples = default_examples
    /\ model_status = "validated"
    /\ process_btn = [enabled |-> TRUE, visible |-> TRUE]
    /\ cancel_visible = FALSE
    /\ progress = [visible |-> FALSE, value |-> 0, maximum |-> 0, label |-> <<>>]
    /\ download_enabled = FALSE
    /\ validate_enabled = TRUE
    /\ saved_file = <<>>
    /\ ui_pc = "idle"
    /\ queue = <<>>
    /\ job = 0
    /\ v_pc = "done" /\ v_cancel = FALSE /\ v_show = "none" /\ last_validation = "validated"
    /\ w_pc = "none" /\ w_chunks = <<>> /\ w_prompt = <<>> /\ w_i = 0 /\ w_out = <<>>
    /\ w_parts = <<>> /\ w_lines = <<>> /\ w_stop = FALSE
    /\ w_requests = <<>> /\ w_results = <<>> /\ w_observed = {} /\ w_emitted = <<>>
    /\ h_cancelled = {} /\ h_surfaced = {} /\ h_restarted = FALSE

ChunkNext == StartAnonymization

ChunkSpec == ChunkInit /\ [][ChunkNext]_vars

\* Starting and restarting jobs on their own: a validated model and a loaded
\* document; the user starts, restarts and cancels jobs while the worker runs
\* and its signals are delivered.
StartInit ==
    /\ original_text \in Docs
    /\ anonymized_chunks = <<>>
    /\ current_examples = default_examples
    /\ model_status = "validated"
    /\ process_btn = [enabled |-> TRUE, visible |-> TRUE]
    /\ cancel_visible = FALSE
    /\ progress = [visible |-> FALSE, value |-> 0, maximum |-> 0, label |-> <<>>]
    /\ download_enabled = FALSE
    /\ validate_enabled = TRUE
    /\ saved_file = <<>>
    /\ ui_pc = "idle"
    /\ queue = <<>>
    /\ job = 0
    /\ v_pc = "done" /\ v_cancel = FALSE /\ v_show = "none" /\ last_validation = "validated"
    /\ w_pc = "none" /\ w_chunks = <<>> /\ w_prompt = <<>> /\ w_i = 0 /\ w_out = <<>>
    /\ w_parts = <<>> /\ w_lines = <<>> /\ w_stop = FALSE
    /\ w_requests = <<>> /\ w_results = <<>> /\ w_observed = {} /\ w_emitted = <<>>
    /\ h_cancelled = {} /\ h_surfaced = {} /\ h_restarted = FALSE

StartNext ==
    \/ StartAnonymization \/ RestartReply \/ RestartResume
    \/ CancelProcessing \/ CancelReply
    \/ WorkerStep
    \/ JobSlotStep

StartSpec == StartInit /\ [][StartNext]_vars

\* the worker thread is scheduled and every backend call returns or fails, the
\* event loop of the main thread delivers the posted signals, and wait()
\* returns once the thread it waits for has ended
FairStartSpec ==
    /\ StartSpec
    /\ WF_vars(WorkerStep)
    /\ WF_vars(JobSlotStep)
    /\ WF_vars(RestartResume)

\* ------------------------------------------------------------------------
\* Properties of OllamaAnonymizationWorker.run
\* ------------------------------------------------------------------------

IsFinished(s) == s.sig = "finished"
IsProgress(s) == s.sig = "progress_updated"
IsError(s)    == s.sig = "error_occurred"

\* the signals of one kind the worker has emitted, in emission order
FinishedEmitted == SelectSeq(w_emitted, IsFinished)
ProgressEmitted == SelectSeq(w_emitted, IsProgress)
ErrorsEmitted   == SelectSeq(w_emitted, IsError)

\* the chunks whose backend call raised
FailedChunks == {k \in 1..Len(w_results) : w_results[k].raised}

\* C1: a cancelled job never emits a completion result: once run() has seen
\* the cancellation flag set at the check that precedes a chunk, the worker
\* emits no finished signal.
C1_CancelledNeverFinishes ==
    "loop" \in w_observed => FinishedEmitted = <<>>

\* C2: whenever the worker emits finished, the list it carries has as many
\* elements as the chunk sequence the worker was given.
C2_FinishedLengthEqualsInput ==
    \A k \in 1..Len(FinishedEmitted) :
        Len(FinishedEmitted[k].payload) = Len(w_chunks)

\* C3: if the backend call for chunk i raises, the output recorded at
\* position i, and carried at position i by finished, is chunk i verbatim.
C3_FailedChunkKeptVerbatim ==
    \A i \in FailedChunks :
        /\ w_out[i] = w_chunks[i]
        /\ \A k \in 1..Len(FinishedEmitted) :
              i <= Len(FinishedEmitted[k].payload)
              /\ FinishedEmitted[k].payload[i] = w_chunks[i]

\* the call for a chunk of a document of two or more chunks raised, every
\* chunk was requested, and the job ended
C3_Witness ==
    /\ w_pc = "finishing"
    /\ \E i \in FailedChunks : w_chunks[i] /= <<>> /\ w_out[i] = w_chunks[i]
    /\ Len(w_requests) = Len(w_chunks)
    /\ Len(w_chunks) >= 2

\* C4: a failure of the call for chunk i is not fatal: exactly one
\* error_occurred names i, progress is still reported for chunk i, the loop
\* goes on (the request for every later chunk is submitted unless a check saw
\* the cancellation flag), and the job ends with finished.
C4_FailureIsNotFatal ==
    /\ \A i \in FailedChunks :
          /\ Cardinality({k \in 1..Len(ErrorsEmitted) : ErrorsEmitted[k].cur = i}) = 1
          /\ \E k \in 1..Len(ProgressEmitted) :
                ProgressEmitted[k].cur = i /\ ProgressEmitted[k].total = Len(w_chunks)
          /\ w_pc \in {"check", "post", "stream", "finishing"}
          /\ (w_pc = "finishing" /\ w_observed = {})
                => Len(w_requests) = Len(w_chunks)
          /\ w_pc = "finishing" => Len(FinishedEmitted) = 1
    /\ Len(ErrorsEmitted) = Cardinality(FailedChunks)

\* the call for chunk 1 raised, the request for chunk 2 was submitted, and the
\* job ended with finished
C4_Witness ==
    /\ w_pc = "finishing"
    /\ 1 \in FailedChunks
    /\ Len(w_requests) >= 2
    /\ w_observed = {}
    /\ Len(FinishedEmitted) = 1

\* what finished carries when the whole sequence was processed
FullOutputs ==
    [k \in 1..Len(w_chunks) |-> TextOr(w_results[k].text, w_chunks[k])]

\* the worker has emitted finished once, as its last signal, right after the
\* progress report of the last chunk, carrying every output in input order
FinishedOnceAtEnd ==
    /\ Len(FinishedEmitted) = 1
    /\ IsFinished(w_emitted[Len(w_emitted)])
    /\ Len(w_results) = Len(w_chunks)
    /\ FinishedEmitted[1].payload = FullOutputs
    /\ Len(w_chunks) >= 1 =>
          /\ Len(w_emitted) >= 2
          /\ IsProgress(w_emitted[Len(w_emitted) - 1])
          /\ w_emitted[Len(w_emitted) - 1].cur = Len(w_chunks)

\* C5: in every run in which cancel() is never called and every backend call
\* returns or fails, the worker eventually emits finished; it emits it exactly
\* once, after the progress report of the last chunk, carrying the full
\* ordered sequence of outputs, and emits no signal after it.
C5_FinishedOnceAfterLastChunk ==
    /\ (w_pc \in {"check", "post", "stream"} /\ ~w_stop) ~> (w_stop \/ w_pc = "finishing")
    /\ []((w_pc = "finishing" /\ ~w_stop) => FinishedOnceAtEnd)
    /\ [][FinishedEmitted /= <<>> => (w_emitted' = w_emitted \/ w_emitted' = <<>>)]_vars

\* a job of two or more chunks, one of them failed, ended without cancel()
C5_Witness ==
    /\ w_pc = "finishing"
    /\ ~w_stop
    /\ Len(w_chunks) >= 2
    /\ FailedChunks /= {}
    /\ FinishedOnceAtEnd

\* C6: order is preserved end to end: the k-th request is built from chunk k,
\* the k-th result is the answer to it, and element k of the outputs, and of
\* the list finished carries, is that answer or chunk k itself.
C6_OutputsFollowInputOrder ==
    /\ \A k \in 1..Len(w_requests) : w_requests[k] = FullPrompt(w_prompt, w_chunks[k])
    /\ Len(w_out) = Len(w_results)
    /\ Len(w_results) <= Len(w_requests)
    /\ Len(w_requests) <= Len(w_results) + 1
    /\ w_pc \in {"check", "post", "stream"} => w_i = Len(w_results) + 1
    /\ \A k \in 1..Len(w_out) : w_out[k] = TextOr(w_results[k].text, w_chunks[k])
    /\ \A f \in 1..Len(FinishedEmitted) :
          \A k \in 1..Len(FinishedEmitted[f].payload) :
             /\ k <= Len(w_results)
             /\ FinishedEmitted[f].payload[k] = TextOr(w_results[k].text, w_chunks[k])

\* finished carries three outputs: an answer of the backend and a chunk kept
\* as it was are among them
C6_Witness ==
    /\ Len(FinishedEmitted) = 1
    /\ Len(FinishedEmitted[1].payload) = 3
    /\ \E k \in 1..3 : FinishedEmitted[1].payload[k] = w_chunks[k]
    /\ \E k \in 1..3 : FinishedEmitted[1].payload[k] = <<"x">>

\* C7: within one job the completed-count of successive progress reports is
\* strictly increasing and never exceeds the total-count, and the total-count
\* is the same, the number of chunks, in every report.
C7_ProgressMonotone ==
    /\ \A k \in 1..Len(ProgressEmitted) :
          /\ ProgressEmitted[k].cur <= ProgressEmitted[k].total
          /\ ProgressEmitted[k].total = Len(w_chunks)
    /\ \A k \in 1..(Len(ProgressEmitted) - 1) :
          ProgressEmitted[k].cur < ProgressEmitted[k + 1].cur

\* two progress reports of a job with a failed chunk that was then cancelled
C7_Witness ==
    /\ Len(ProgressEmitted) >= 2
    /\ FailedChunks /= {}
    /\ "loop" \in w_observed

\* C8: the cancellation flag is checked before each request and on each line
\* of a streamed response: a request is only submitted after the check before
\* it found the flag clear, a line that arrives with the flag set ends the
\* reading, and once a check has seen the flag set no request is submitted.
C8_CancelCheckedBeforeRequests ==
    [][ /\ (w_pc' = "post" /\ w_pc /= "post") => (w_pc = "check" /\ ~w_stop)
        /\ Len(w_requests') > Len(w_requests) => (w_pc = "post" /\ w_observed = {})
        /\ w_observed /= {} => Len(w_requests') <= Len(w_requests)
        /\ (w_pc = "stream" /\ w_stop /\ <<w_pc, w_parts, w_lines>>' /= <<w_pc, w_parts, w_lines>>)
              => /\ w_pc' = "check"
                 /\ Len(w_results') = Len(w_results) + 1
                 /\ w_results'[Len(w_results')].text \in {StreamResult(w_parts), w_chunks[w_i]}
      ]_vars

\* the flag was seen set while a response was read, and the job ended with a
\* chunk that was never requested
C8_Witness ==
    /\ "stream" \in w_observed
    /\ w_pc = "finishing"
    /\ Len(w_requests) < Len(w_chunks)

\* ------------------------------------------------------------------------
\* Properties of TextAnonymizer
\* ------------------------------------------------------------------------

\* C9: after the user cancels a running job, the chunks the job had completed
\* are not surfaced as a final result: the main window never holds the partial
\* outputs of a cancelled job in anonymized_chunks with the download button
\* enabled by the _on_finished that showed the completion notice for that job.
C9_CancelledJobNotSurfaced ==
    \A j \in h_cancelled \cap h_surfaced :
        ~ /\ j = job
          /\ download_enabled
          /\ anonymized_chunks /= <<>>
          /\ Len(anonymized_chunks) < Len(w_chunks)

\* C10: a validation failure blocks the start of the main job: while the most
\* recent validation attempt has ended with the error signal, no
\* anonymization worker is started.
C10_FailedValidationBlocksStart ==
    [][(last_validation = "error" /\ model_status = "failed") => job' = job]_vars

\* C11: validation precedes processing: the Start Anonymization button is
\* disabled initially and only the delivery of a validated signal enables it,
\* and no anonymization worker is started before a validation has succeeded,
\* so none is started while no validation has been run at all.
C11_ValidationPrecedesProcessing ==
    [][ /\ (~process_btn.enabled /\ process_btn'.enabled)
              => /\ queue /= <<>>
                 /\ Head(queue).sig = "validated"
                 /\ queue' = Tail(queue)
        /\ job' /= job => last_validation /= "none"
      ]_vars

\* C12: at most one anonymization worker thread is running: a worker is only
\* created and started when no worker thread is running, so a start request
\* made while one runs either ends it first (Yes: it is cancelled and waited
\* for) or starts nothing (No).
C12_OneWorkerAtATime ==
    [][ /\ job' /= job => ~ProcRunning
        /\ (ui_pc = "restart_dialog" /\ ui_pc' = "idle")
              => (job' = job /\ wvars' = wvars)
        /\ (ui_pc = "restart_dialog" /\ ui_pc' = "restart_wait")
              => (job' = job /\ w_stop')
      ]_vars

\* the main thread is blocked in wait() on a worker it has just cancelled and
\* that is still running
C12_Witness ==
    /\ ui_pc = "restart_wait"
    /\ ProcRunning
    /\ w_stop

\* ------------------------------------------------------------------------
\* Properties of TextAnonymizer._chunk_text
\* ------------------------------------------------------------------------

\* a header line as the specification defines it: trimmed, it starts with "#"
\* and is not exactly "#"
HeaderLine(line) ==
    LET t == Strip(line) IN Len(t) >= 2 /\ t[1] = "#"

\* the positions of the header lines of a sequence of lines
HeaderIndexes(lines) == { k \in 1..Len(lines) : HeaderLine(lines[k]) }

\* a finite set of numbers as an increasing sequence
RECURSIVE Ascending(_)
Ascending(S) ==
    IF S = {} THEN <<>>
    ELSE LET m == CHOOSE x \in S : \A y \in S : x <= y
         IN  <<m>> \o Ascending(S \ {m})

\* the runs of lines a text with headers falls into: a run starts at the first
\* line and at every header line and ends before the next header line
Runs(lines) ==
    LET starts == Ascending(HeaderIndexes(lines) \cup {1})
        end(j) == IF j < Len(starts) THEN starts[j + 1] - 1 ELSE Len(lines)
    IN  [j \in 1..Len(starts) |-> SubSeq(lines, starts[j], end(j))]

\* a run the empty-chunk filter keeps
KeptRun(run) == Strip(JoinLines(run)) /= <<>>

\* the lines of a sequence of texts, one text after the other
RECURSIVE LinesOf(_)
LinesOf(texts) ==
    IF texts = <<>> THEN <<>> ELSE SplitLines(Head(texts)) \o LinesOf(Tail(texts))

\* the lines of a sequence of runs, one run after the other
RECURSIVE Flatten(_)
Flatten(runs) ==
    IF runs = <<>> THEN <<>> ELSE Head(runs) \o Flatten(Tail(runs))

\* what _chunk_text made of the document: the chunks handed to the worker, or
\* its result when no job was started
Chunked == IF job > 0 THEN w_chunks ELSE chunk_text(original_text)

\* C13: for a text with no header line, _chunk_text returns exactly one chunk
\* equal to the trimmed text, or the empty sequence when the text is blank.
C13_HeaderlessIsOneChunk ==
    HeaderIndexes(SplitLines(original_text)) = {}
        => Chunked = IF Strip(original_text) = <<>>
                     THEN <<>> ELSE <<Strip(original_text)>>

\* a job started on a text of several lines, a lone "#" among them, none of
\* them a header line
C13_Witness ==
    /\ job = 1
    /\ HeaderIndexes(SplitLines(original_text)) = {}
    /\ Len(SplitLines(original_text)) >= 3
    /\ \E k \in 1..Len(SplitLines(original_text)) :
          Strip(SplitLines(original_text)[k]) = <<"#">>
    /\ Len(w_chunks) = 1
    /\ w_chunks[1] /= original_text

\* C14 as stated: for a text with at least one header line, the lines of the
\* chunks, one chunk after the other, are the original sequence of lines
\* without the lines of the chunks the empty-chunk filter removed.
C14_ConcatReproducesLines ==
    (job > 0 /\ HeaderIndexes(SplitLines(original_text)) /= {})
        => LinesOf(w_chunks)
             = Flatten(SelectSeq(Runs(SplitLines(original_text)), KeptRun))

\* C14, amended: for a text with at least one header line, the chunks are, in
\* order, the runs of lines between header lines, each joined by newlines and
\* trimmed of leading and trailing whitespace, without the runs that are
\* blank; the concatenation reproduces the original lines except for that
\* trimmed whitespace and the filtered runs.
C14_ConcatReproducesTrimmedRuns ==
    (job > 0 /\ HeaderIndexes(SplitLines(original_text)) /= {})
        => LET kept == SelectSeq(Runs(SplitLines(original_text)), KeptRun)
           IN  /\ Len(w_chunks) = Len(kept)
               /\ \A k \in 1..Len(kept) : w_chunks[k] = Strip(JoinLines(kept[k]))

\* a job on a text whose blank leading run was filtered out and whose header
\* chunk lost a trailing blank line
C14_Witness ==
    /\ job = 1
    /\ HeaderIndexes(SplitLines(original_text)) /= {}
    /\ Len(Runs(SplitLines(original_text))) > Len(w_chunks)
    /\ Len(LinesOf(w_chunks)) + 2 <= Len(SplitLines(original_text))

\* the first line of a chunk
FirstLine(c) == SplitLines(c)[1]

\* the positions, in order, of the chunks whose first line is a header line
HeaderChunks(chunks) ==
    Ascending({ k \in 1..Len(chunks) : HeaderLine(FirstLine(chunks[k])) })

\* no chunk has a header line anywhere but as its first line
HeadersOnlyFirst(chunks) ==
    \A k \in 1..Len(chunks) :
        \A n \in 2..Len(SplitLines(chunks[k])) : ~HeaderLine(SplitLines(chunks[k])[n])

\* the lines before the first header line (all lines when there is none)
LeadingLines(lines) ==
    LET H == Ascending(HeaderIndexes(lines))
    IN  IF H = <<>> THEN lines ELSE SubSeq(lines, 1, H[1] - 1)

\* C15 as stated: no chunk contains a header line anywhere but as its first
\* line, the j-th header line of the text is the first line of the j-th chunk
\* that starts with a header (so every header line is the first line of
\* exactly one chunk), and the text before the first header is the leading
\* chunk, without a header, when it is not blank.
C15_HeaderStartsChunk ==
    (job > 0 /\ HeaderIndexes(SplitLines(original_text)) /= {})
        => LET lines == SplitLines(original_text)
               H     == Ascending(HeaderIndexes(lines))
               HC    == HeaderChunks(w_chunks)
               lead  == JoinLines(LeadingLines(lines))
           IN  /\ HeadersOnlyFirst(w_chunks)
               /\ Len(HC) = Len(H)
               /\ \A j \in 1..Len(H) : FirstLine(w_chunks[HC[j]]) = lines[H[j]]
               /\ IF Strip(lead) /= <<>>
                  THEN HC[1] = 2 /\ w_chunks[1] = lead
                  ELSE HC[1] = 1

\* C15, amended: no chunk contains a header line anywhere but as its first
\* line, the j-th header line of the text is, up to leading and trailing
\* whitespace, the first line of the j-th chunk that starts with a header (so
\* every header line starts exactly one chunk), and the text before the first
\* header is, trimmed, the leading chunk, without a header, when it is not
\* blank.
C15_HeaderStartsTrimmedChunk ==
    (job > 0 /\ HeaderIndexes(SplitLines(original_text)) /= {})
        => LET lines == SplitLines(original_text)
               H     == Ascending(HeaderIndexes(lines))
               HC    == HeaderChunks(w_chunks)
               lead  == JoinLines(LeadingLines(lines))
           IN  /\ HeadersOnlyFirst(w_chunks)
               /\ Len(HC) = Len(H)
               /\ \A j \in 1..Len(H) :
                     Strip(FirstLine(w_chunks[HC[j]])) = Strip(lines[H[j]])
               /\ IF Strip(lead) /= <<>>
                  THEN HC[1] = 2 /\ w_chunks[1] = Strip(lead)
                  ELSE HC[1] = 1

\* a job on a text with a leading chunk and a header line that lost
\* whitespace when it became the first line of the second chunk
C15_Witness ==
    /\ job = 1
    /\ HeaderIndexes(SplitLines(original_text)) /= {}
    /\ Len(w_chunks) >= 2
    /\ ~HeaderLine(FirstLine(w_chunks[1]))
    /\ HeaderLine(FirstLine(w_chunks[2]))
    /\ \A k \in HeaderIndexes(SplitLines(original_text)) :
          SplitLines(original_text)[k] /= FirstLine(w_chunks[2])

\* ------------------------------------------------------------------------
\* Properties of OllamaAnonymizationWorker._stream_ollama
\* ------------------------------------------------------------------------

\* the step in which run() records the outcome of the backend call for chunk w_i
ChunkSettles == Len(w_results') = Len(w_results) + 1

\* the signals emitted by the step
NewlyEmitted == SubSeq(w_emitted', Len(w_emitted) + 1, Len(w_emitted'))

\* C16: a malformed backend response is a per-chunk failure: when the
\* streamed response for chunk i held a line that could not be parsed, the
\* worker records the original chunk i as its result, reports the failure by
\* error_occurred, and goes on with the job.
C16_MalformedResponseIsChunkFailure ==
    [][ ( /\ w_pc = "stream"
          /\ ChunkSettles
          /\ \E k \in 1..Len(w_lines) : w_lines[k].kind = "unparsable" )
        => /\ w_results'[Len(w_results')].raised
           /\ w_out' = Append(w_out, w_chunks[w_i])
           /\ \E n \in 1..Len(NewlyEmitted) :
                 /\ NewlyEmitted[n].sig = "error_occurred"
                 /\ NewlyEmitted[n].cur = w_i
           /\ w_pc' = "check"
      ]_vars

\* ------------------------------------------------------------------------
\* Properties of TextAnonymizer._download_results
\* ------------------------------------------------------------------------

\* chunks with a blank line between one and the next
BlankLineSeparated(chunks) ==
    Concat([k \in 1..Len(chunks) |->
              IF k = 1 THEN chunks[k] ELSE <<"\n", "\n">> \o chunks[k]])

\* C17: a failed save does not affect the in-memory results: a step that
\* leaves in the file something else than the whole results leaves
\* anonymized_chunks and the enabled download button as they were; and a save
\* that clears the results has written them to the file joined by a
\* blank-line separator.
C17_FailedSaveKeepsResults ==
    [][ /\ (saved_file' /= saved_file
              /\ saved_file' /= BlankLineSeparated(anonymized_chunks))
              => /\ anonymized_chunks' = anonymized_chunks
                 /\ download_enabled /\ download_enabled'
        /\ (anonymized_chunks /= <<>> /\ anonymized_chunks' = <<>> /\ queue' = queue)
              => /\ saved_file' = BlankLineSeparated(anonymized_chunks)
                 /\ ~download_enabled'
        /\ (saved_file' /= saved_file /\ anonymized_chunks' /= anonymized_chunks)
              => saved_file' = BlankLineSeparated(anonymized_chunks)
      ]_vars

\* a failed write has left part of the results of three chunks in the file,
\* and the results are still held with the download button enabled
C17_Witness ==
    /\ Len(anonymized_chunks) = 3
    /\ download_enabled
    /\ saved_file /= <<>>
    /\ saved_file /= BlankLineSeparated(anonymized_chunks)

\* ------------------------------------------------------------------------
\* Further properties of OllamaAnonymizationWorker.run
\* ------------------------------------------------------------------------

\* C18: progress is reported once after each chunk, in input order: the k-th
\* progress_updated of a job is (k, total); there are as many reports as
\* recorded outputs, so report k comes with output k; the request for chunk
\* k+1 is only submitted once report k has been emitted; and at most one
\* request of the job has been submitted and not yet settled.
C18_ProgressAfterEachChunk ==
    /\ \A k \in 1..Len(ProgressEmitted) :
          /\ ProgressEmitted[k].cur = k
          /\ ProgressEmitted[k].total = Len(w_chunks)
    /\ Len(ProgressEmitted) = Len(w_out)
    /\ Len(w_requests) <= Len(ProgressEmitted) + 1
    /\ Len(w_requests) - Len(w_results) \in {0, 1}
    /\ (Len(w_requests) - Len(w_results) = 1) <=> (w_pc = "stream")

\* the third request of a job is in flight after two progress reports, one of
\* them for a chunk that failed
C18_Witness ==
    /\ w_pc = "stream"
    /\ Len(w_requests) = 3
    /\ Len(ProgressEmitted) = 2
    /\ FailedChunks /= {}

\* C19: the worker stops immediately when cancellation is observed while a
\* response is read: the step in which the flag is seen set on a line of the
\* response of chunk i records no output for chunk i and emits no signal
\* for it, neither chunk_processed nor progress_updated.
C19_CancelInStreamRecordsNothing ==
    [][ ("stream" \notin w_observed /\ "stream" \in w_observed')
        => /\ w_out' = w_out
           /\ w_emitted' = w_emitted
      ]_vars

\* the fragments of the lines that are objects with a non-empty "response"
RECURSIVE FragmentsOf(_)
FragmentsOf(lines) ==
    IF lines = <<>> THEN <<>>
    ELSE (IF Head(lines).kind = "object" /\ Head(lines).piece /= <<>>
          THEN <<Head(lines).piece>> ELSE <<>>) \o FragmentsOf(Tail(lines))

C21_ShowNotFoundFailsValidation ==
    [][ v_show = "not_found"
        => /\ last_validation' /= "validated"
           /\ \A n \in (Len(queue) + 1)..Len(queue') : queue'[n].sig /= "validated"
           /\ (v_pc' = "finishing" /\ ~v_cancel)
                 => \E n \in (Len(queue) + 1)..Len(queue') : queue'[n].sig = "error"
      ]_vars

\* ------------------------------------------------------------------------
\* Properties of the outputs of a job
\* ------------------------------------------------------------------------

\* C22: no output element is ever empty: the chunks handed to the worker are
\* not empty; when the backend call for chunk k returned an empty trimmed
\* text, the worker has recorded the original chunk k at position k and has
\* emitted no error_occurred for k; and every element of the outputs recorded
\* so far and of the list carried by finished is a non-empty string.
C22_NoEmptyOutput ==
    /\ \A k \in 1..Len(w_chunks) : w_chunks[k] /= <<>>
    /\ \A k \in 1..Len(w_out) : w_out[k] /= <<>>
    /\ \A k \in 1..Len(w_results) :
          (~w_results[k].raised /\ w_results[k].text = <<>>)
              => /\ k <= Len(w_out)
                 /\ w_out[k] = w_chunks[k]
                 /\ \A n \in 1..Len(ErrorsEmitted) : ErrorsEmitted[n].cur /= k
    /\ \A n \in 1..Len(FinishedEmitted) :
          \A k \in 1..Len(FinishedEmitted[n].payload) :
              FinishedEmitted[n].payload[k] /= <<>>

\* finished carries three outputs, one of them for a call that returned an
\* empty text without raising
C22_Witness ==
    /\ Len(FinishedEmitted) = 1
    /\ Len(FinishedEmitted[1].payload) = 3
    /\ \E k \in 1..Len(w_results) :
          /\ ~w_results[k].raised
          /\ w_results[k].text = <<>>
          /\ FinishedEmitted[1].payload[k] = w_chunks[k]

\* ------------------------------------------------------------------------
\* Properties of restarted jobs
\* ------------------------------------------------------------------------

\* the signals an OllamaAnonymizationWorker emits
WorkerSignals == {"finished", "progress_updated", "chunk_processed", "error_occurred"}

\* C23: signals of a superseded job never affect the new job's view: no
\* signal of an earlier worker is still to be delivered once a new worker has
\* been started; hence a slot run for a finished or progress signal of an
\* earlier worker changes nothing, and a job started after cancelling and
\* waiting for its predecessor keeps the view in processing mode, with its own
\* progress range, until its own finished signal has been handled, and only
\* its own finished signal installs outputs in anonymized_chunks.
C23_SupersededJobIsSilent ==
    /\ [](\A n \in 1..Len(queue) :
              queue[n].sig \in WorkerSignals => queue[n].job = job)
    /\ []((h_restarted /\ job \notin h_surfaced)
              => /\ cancel_visible
                 /\ ~process_btn.visible
                 /\ progress.visible
                 /\ progress.maximum = Len(w_chunks))
    /\ [][ ( /\ queue /= <<>>
              /\ queue' = Tail(queue)
              /\ Head(queue).sig \in {"finished", "progress_updated"}
              /\ Head(queue).job /= job )
            => /\ cancel_visible' = cancel_visible
               /\ process_btn' = process_btn
               /\ progress' = progress
               /\ anonymized_chunks' = anonymized_chunks
          ]_vars
    /\ [][ (h_restarted /\ h_restarted' /\ anonymized_chunks' /= anonymized_chunks)
            => \/ /\ queue /= <<>>
                  /\ Head(queue).sig = "finished"
                  /\ Head(queue).job = job
                  /\ anonymized_chunks' = Head(queue).payload
               \/ anonymized_chunks' = <<>>
          ]_vars

\* a job started after cancelling and waiting for its predecessor is running,
\* the outputs of the predecessor are installed, and a progress report of the
\* new job is the next signal to be delivered
C23_Witness ==
    /\ h_restarted
    /\ job = 2
    /\ ProcRunning
    /\ anonymized_chunks /= <<>>
    /\ queue /= <<>>
    /\ Head(queue).sig = "progress_updated"
    /\ Head(queue).job = 2

\* the idle view of the main window
IdleView ==
    /\ process_btn.visible
    /\ process_btn.enabled
    /\ ~cancel_visible
    /\ ~progress.visible

====
